---- MODULE Spec2Model ----
(***************************************************************************)
(* Model of the 911 operator simulation.                                   *)
(*                                                                         *)
(* Three components, each with its own variables and specifications:       *)
(*  - the analysis route's tools searchLocation and searchPerson           *)
(*    (src/pages/helper.ts, lines 78-278), specification SpecTools;        *)
(*  - the response/tool dispatch handleUserMessage with its session        *)
(*    conversationState (src/unnamed/part_001), SpecDispatch;              *)
(*  - the browser voice loop, specifications Spec, SpecTurn, SpecEnrich    *)
(* (src/pages/helper.ts, component Home, lines 589-874): the message       *)
(* timeline, the caller-speaking flag, the playback device, the speech     *)
(* detector, in-flight transcriptions, in-flight response attempts         *)
(* (respond) and in-flight enrichment runs (asyncChecks).                  *)
(*                                                                         *)
(* React semantics kept by the model:                                      *)
(*  - a handler's state updates and the effects of the render they cause   *)
(*    form one step;                                                       *)
(*  - an effect runs only when one of its dependencies changed;            *)
(*  - respond and asyncChecks are closures of the render whose effect      *)
(*    called them: the `messages` and `isSpeaking` they read after an      *)
(*    await are the values of that render, not the live state, while the   *)
(*    functional updaters setMessages(prev => ...) see the live timeline.  *)
(***************************************************************************)
EXTENDS Integers, Sequences, FiniteSets, TLC

(* ---------------------------- bounds ---------------------------------- *)
MaxUtterances == 2
MaxCalls == 1
MaxEnrichedUtterances == 1

(* ---------------------------- value sets ------------------------------ *)
Transcripts == {"fire at Main and 5th"}
Replies == {"what is your emergency"}
Sentiments == {"fear"}
NoSentiment == "undefined"
Queries == {"null", "", "Main and 5th"}
PlaceLists == {<<>>, <<"Main St & 5th St">>, <<"Downtown", "Main St & 5th St">>}
WebResults == {"overview with image_urls", "overview without image_urls"}
NoBuffer == <<"none", 0>>
NullID == 0

VARIABLES
  onCall,            \* useState onCall
  messages,          \* useState messages: the timeline
  isSpeaking,        \* useState isSpeaking: the caller-speaking flag
  audioSpeaker,      \* the HTMLAudioElement held by the audioSpeaker ref
  vad,               \* the MicVAD held by the vad ref
  vadNew,            \* number of MicVAD.new calls not yet resolved
  speechInProgress,  \* detector: between onSpeechStart and onSpeechEnd
  utterances,        \* number of utterances the detector has started
  transcribing,      \* utterances whose transcription call is outstanding
  attempts,          \* response attempts (respond) in flight
  respondCalls,      \* number of respond() calls so far
  checks,            \* enrichment runs (asyncChecks) in flight
  lastSentiment,     \* useState lastSentiment
  summary,           \* useState summary
  locationSearch,    \* useState locationSearch
  humanResearch,     \* useState humanResearch
  uuid,              \* number of ids minted by crypto.randomUUID
  toolRun,           \* analysis tool: the execute() call in flight
  toolResult,        \* analysis tool: the result last returned by execute()
  externalCalls,     \* analysis tool: external calls made by that execute()
  conversationState, \* dispatch: the global session of part_001
  pending,           \* dispatch: handleUserMessage calls awaiting the model
  returned,          \* dispatch: outcome of the last handleUserMessage call
  lookups,           \* dispatch: searchMap / searchPerson executions
  turns,             \* dispatch: number of handleUserMessage calls so far
  analysis,          \* analysis route: the analyzeConversation call in flight
  analysed           \* analysis route: what analyzeConversation last returned

browser == <<onCall, messages, isSpeaking, audioSpeaker, vad, vadNew,
          speechInProgress, utterances, transcribing, attempts, respondCalls,
          checks, lastSentiment, summary, locationSearch, humanResearch, uuid>>

tools == <<toolRun, toolResult, externalCalls>>
dispatch == <<conversationState, pending, returned, lookups, turns>>
analyzer == <<analysis, analysed>>
server == <<tools, dispatch, analyzer>>

vars == <<browser, server>>

panels == <<lastSentiment, summary, locationSearch, humanResearch>>
detector == <<vad, vadNew, speechInProgress, utterances>>

(* ---------------------------- helpers --------------------------------- *)
Last(s) == s[Len(s)]

\* messages.length > 0 && messages[messages.length - 1].role === "user"
atLeastOneUnresponded(msgs) == Len(msgs) > 0 /\ Last(msgs).role = "user"

\* messages?.[messages.length - 1]?.id || null
LastIdOrNull(msgs) == IF Len(msgs) > 0 THEN Last(msgs).id ELSE NullID

\* the attempt created by a call of respond() from the render whose state
\* is (msgs, spk): lastID and the render's own messages / isSpeaking
NewAttempt(msgs, spk, n) ==
  [n |-> n,
   lastID |-> LastIdOrNull(msgs),
   rLastId |-> LastIdOrNull(msgs),
   rIsSpeaking |-> spk,
   pc |-> "generate",
   text |-> ""]

\* turn-check effect, deps [isSpeaking]
TurnCheckFires(spkOld, spkNew, msgsNew) ==
  spkOld # spkNew /\ ~spkNew /\ atLeastOneUnresponded(msgsNew)

TurnCheck(spkOld, spkNew, msgsNew) ==
  IF TurnCheckFires(spkOld, spkNew, msgsNew)
  THEN /\ attempts' = attempts \cup
                        {NewAttempt(msgsNew, spkNew, respondCalls + 1)}
       /\ respondCalls' = respondCalls + 1
  ELSE UNCHANGED <<attempts, respondCalls>>

\* the run created by a call of asyncChecks() from the render whose
\* timeline is msgs
NewCheck(msgs) ==
  [srcId |-> Last(msgs).id,
   nMessages |-> Len(msgs),
   pc |-> "analyze",
   sentiment |-> NoSentiment,
   geo |-> FALSE,
   human |-> FALSE]

\* enrichment effect, deps [messages.length]
EnrichEffect(msgsOld, msgsNew, runs) ==
  IF Len(msgsOld) # Len(msgsNew) /\ atLeastOneUnresponded(msgsNew)
  THEN runs \cup {NewCheck(msgsNew)}
  ELSE runs

\* variant of StaleCheck with the id comparison inverted
StaleCheckInverted(a) == a.rLastId = a.lastID \/ a.rIsSpeaking

\* messages[messages.length - 1].id !== lastID || isSpeaking, read from the
\* closure of the render that called respond()
StaleCheck(a) == a.rLastId # a.lastID \/ a.rIsSpeaking

\* variant of Pause that leaves the element playing
PauseNoop(au) == au

\* audioSpeaker.current.pause()
Pause(au) == [au EXCEPT !.paused = TRUE]

\* variant of Play that sets the source but never calls play()
PlayNotStarted(au, buf) == [paused |-> TRUE, ended |-> FALSE, src |-> buf]

\* src = ...; currentTime = 0; playbackRate = 1.3; play()
Play(au, buf) == [paused |-> FALSE, ended |-> FALSE, src |-> buf]

(* ---------------------------- analysis tools: values ------------------ *)
\* strings of the tools are sequences of characters, so that trim() and
\* length are computed
MaxQueryLen == 3
Alphabet == {" ", "a"}
IAm == <<"I", " ", "a", "m">>
Breathe == <<"b", "r", "e", "a", "t", "h", "e">>
PaddedIAm == <<" ", "I", " ", "a", "m">>
MainAnd5th == <<"M", "a", "i", "n", " ", "&", " ", "5", "t", "h">>
ToolQueries ==
  UNION {[1..n -> Alphabet] : n \in 0..MaxQueryLen}
    \cup {IAm, Breathe, PaddedIAm, MainAnd5th}
ToolNames == {"searchLocation", "searchPerson"}

\* response?.ai_overview of jigsaw.web.search
Overviews == {"undefined", "", "overview"}
\* the latitude / longitude / age fields of the parsed extraction
Coordinates == {"null", "0", "37.78"}
Ages == {"null", "0", "34"}
Backgrounds == {"", "No background found", "a teacher from Main St"}

NoRun == [tool |-> "none", query |-> <<>>, pc |-> "idle"]
NoResult ==
  [tool |-> "none", status |-> "none", latitude |-> "undefined",
   longitude |-> "undefined", address |-> <<>>, name |-> <<>>,
   age |-> "undefined", background |-> "undefined"]

\* analyzeConversation: no call in flight; the object it returns when it
\* found nothing, { location: null, callerProfile: null, newMessage: null }
NoAnalysis == [pc |-> "idle", chat |-> 0]
NoMessage ==
  [role |-> "null", content |-> <<>>, id |-> "null", buffer |-> "null",
   isSystemNotification |-> FALSE]
NothingFound ==
  [location |-> NoResult, callerProfile |-> NoResult, newMessage |-> NoMessage]

(* ---------------------------- dispatch: values ------------------------ *)
SystemPrompt == "You are a 911 operator"
NoEndReason == "undefined"
NewSession ==
  [messages |-> <<>>, isActive |-> FALSE, hasEnded |-> FALSE,
   endReason |-> NoEndReason]
NoReturn == [call |-> 0, kind |-> "none", response |-> "", hasEnded |-> FALSE]

MaxTurns == 2
UserMessages == {"there is a fire"}
\* responseMessage.content: empty (null) or a text
ModelContents == {"", "Help is on the way"}
EndReasons == {"help dispatched", "emergency handled"}

\* toolCall.function: its name and its arguments string, which JSON.parse
\* accepts (ok) or rejects
MapCall(q) ==
  [name |-> "search-map",
   arguments |-> [ok |-> TRUE, query |-> q, reason |-> ""]]
PersonCall(q) ==
  [name |-> "search-person",
   arguments |-> [ok |-> TRUE, query |-> q, reason |-> ""]]
EndCall(r) ==
  [name |-> "end-call",
   arguments |-> [ok |-> TRUE, query |-> <<>>, reason |-> r]]
UnknownCall ==
  [name |-> "search-hospital",
   arguments |-> [ok |-> TRUE, query |-> <<>>, reason |-> ""]]
MalformedCall ==
  [name |-> "search-map",
   arguments |-> [ok |-> FALSE, query |-> <<>>, reason |-> ""]]

ToolCalls ==
  {MapCall(IAm), PersonCall(<<"a", "a">>), UnknownCall, MalformedCall}
    \cup {EndCall(r) : r \in EndReasons}

\* responseMessage.tool_calls: none, one or two tool calls
ToolCallLists ==
  {<<>>} \cup {<<t>> : t \in ToolCalls}
         \cup {<<t, u>> : t \in ToolCalls, u \in ToolCalls}

\* response.choices[0].message: a text or nothing without tool calls, no
\* text with tool calls
ModelResponses ==
  {[content |-> t, tool_calls |-> <<>>] : t \in ModelContents}
    \cup {[content |-> "", tool_calls |-> l] : l \in ToolCallLists \ {<<>>}}

NoToolCallId == <<0, 0>>
\* an entry of conversationState.messages
Entry(role, content) ==
  [role |-> role, content |-> content, tool_calls |-> <<>>,
   tool_call_id |-> NoToolCallId]

(* ---------------------------- initial state --------------------------- *)
Init ==
  /\ onCall = FALSE
  /\ messages = <<>>
  /\ isSpeaking = FALSE
  /\ audioSpeaker = [paused |-> TRUE, ended |-> FALSE, src |-> NoBuffer]
  /\ vad = "null"
  /\ vadNew = 0
  /\ speechInProgress = FALSE
  /\ utterances = 0
  /\ transcribing = {}
  /\ attempts = {}
  /\ respondCalls = 0
  /\ checks = {}
  /\ lastSentiment = NoSentiment
  /\ summary = 0
  /\ locationSearch = "null"
  /\ humanResearch = "null"
  /\ uuid = 0
  /\ toolRun = NoRun
  /\ toolResult = NoResult
  /\ externalCalls = 0
  /\ conversationState = NewSession
  /\ pending = {}
  /\ returned = NoReturn
  /\ lookups = {}
  /\ turns = 0
  /\ analysis = NoAnalysis
  /\ analysed = NothingFound

(* ---------------------------- call controls --------------------------- *)
\* handleCall up to the await of MicVAD.new
HandleCall ==
  /\ ~onCall
  /\ vadNew < MaxCalls
  /\ onCall' = TRUE
  /\ vadNew' = vadNew + 1
  /\ UNCHANGED <<messages, isSpeaking, audioSpeaker, vad, speechInProgress,
                 utterances, transcribing, attempts, respondCalls, checks, panels, uuid>>
  /\ UNCHANGED server

\* MicVAD.new resolves: vad.current = ...; vad.current?.start()
VadCreated ==
  /\ vadNew > 0
  /\ vadNew' = vadNew - 1
  /\ vad' = "listening"
  /\ speechInProgress' = FALSE
  /\ UNCHANGED <<onCall, messages, isSpeaking, audioSpeaker,
                 utterances, transcribing, attempts, respondCalls, checks, panels, uuid>>
  /\ UNCHANGED server

HandleEndCall ==
  /\ onCall
  /\ vad' = IF vad = "listening" THEN "paused" ELSE vad
  /\ speechInProgress' = FALSE
  /\ onCall' = FALSE
  /\ isSpeaking' = FALSE
  /\ TurnCheck(isSpeaking, FALSE, messages)
  /\ UNCHANGED <<messages, audioSpeaker, vadNew, utterances,
                 transcribing, checks, panels, uuid>>
  /\ UNCHANGED server

(* ---------------------------- speech detector ------------------------- *)
onSpeechStart ==
  /\ vad = "listening"
  /\ ~speechInProgress
  /\ utterances < MaxUtterances
  /\ speechInProgress' = TRUE
  /\ utterances' = utterances + 1
  /\ audioSpeaker' = IF ~audioSpeaker.paused THEN Pause(audioSpeaker)
                     ELSE audioSpeaker
  /\ isSpeaking' = TRUE
  /\ TurnCheck(isSpeaking, TRUE, messages)
  /\ UNCHANGED <<onCall, messages, vad, vadNew, transcribing, checks,
                 panels, uuid>>
  /\ UNCHANGED server

\* onSpeechEnd up to the await of transcribeAudio
onSpeechEnd ==
  /\ vad = "listening"
  /\ speechInProgress
  /\ speechInProgress' = FALSE
  /\ transcribing' = transcribing \cup {utterances}
  /\ UNCHANGED <<onCall, messages, isSpeaking, audioSpeaker, vad, vadNew,
                 utterances, attempts, respondCalls, checks, panels, uuid>>
  /\ UNCHANGED server

\* transcribeAudio resolves; the rest of onSpeechEnd and its render
TranscribeDone(n, transcript) ==
  /\ n \in transcribing
  /\ transcribing' = transcribing \ {n}
  /\ uuid' = uuid + 1
  /\ messages' = Append(messages,
                   [role |-> "user", content |-> transcript, id |-> uuid + 1,
                    buffer |-> <<"wav", n>>, sentiment |-> NoSentiment])
  /\ isSpeaking' = FALSE
  /\ TurnCheck(isSpeaking, FALSE, messages')
  /\ checks' = EnrichEffect(messages, messages', checks)
  /\ UNCHANGED <<onCall, audioSpeaker, detector, panels>>
  /\ UNCHANGED server

\* variant of TranscribeFail that appends a Message with no transcript
TranscribeFailAppends(n) ==
  /\ n \in transcribing
  /\ transcribing' = transcribing \ {n}
  /\ uuid' = uuid + 1
  /\ messages' = Append(messages,
                   [role |-> "user", content |-> "", id |-> uuid + 1,
                    buffer |-> <<"wav", n>>, sentiment |-> NoSentiment])
  /\ UNCHANGED <<onCall, isSpeaking, audioSpeaker, detector,
                 attempts, respondCalls, checks, panels>>
  /\ UNCHANGED server

\* transcribeAudio rejects: onSpeechEnd ends with an unhandled rejection
TranscribeFail(n) ==
  /\ n \in transcribing
  /\ transcribing' = transcribing \ {n}
  /\ UNCHANGED <<onCall, messages, isSpeaking, audioSpeaker, detector,
                 attempts, respondCalls, checks, panels, uuid>>
  /\ UNCHANGED server

(* ---------------------------- playback device ------------------------- *)
\* the audio element reaches the end of its source
AudioEnded ==
  /\ ~audioSpeaker.paused
  /\ audioSpeaker' = [audioSpeaker EXCEPT !.paused = TRUE, !.ended = TRUE]
  /\ UNCHANGED <<onCall, messages, isSpeaking, detector, transcribing,
                 attempts, respondCalls, checks, panels, uuid>>
  /\ UNCHANGED server

(* ---------------------------- respond --------------------------------- *)
\* generateText resolves; first staleness check
RespondGenerated(a, text) ==
  /\ a \in attempts
  /\ a.pc = "generate"
  /\ attempts' = IF StaleCheck(a) THEN attempts \ {a}
                 ELSE (attempts \ {a}) \cup
                        {[a EXCEPT !.pc = "synthesize", !.text = text]}
  /\ UNCHANGED <<onCall, messages, isSpeaking, audioSpeaker, detector,
                 transcribing, respondCalls, checks, panels, uuid>>
  /\ UNCHANGED server

\* text_to_speech resolves; second staleness check
RespondSynthesized(a) ==
  /\ a \in attempts
  /\ a.pc = "synthesize"
  /\ attempts' = IF StaleCheck(a) THEN attempts \ {a}
                 ELSE (attempts \ {a}) \cup {[a EXCEPT !.pc = "blob"]}
  /\ UNCHANGED <<onCall, messages, isSpeaking, audioSpeaker, detector,
                 transcribing, respondCalls, checks, panels, uuid>>
  /\ UNCHANGED server

\* blob() and arrayBuffer() resolve; third staleness check, then playback
\* and the append of the assistant Message (in this order in the code)
RespondMaterialized(a) ==
  /\ a \in attempts
  /\ a.pc = "blob"
  /\ attempts' = attempts \ {a}
  /\ IF StaleCheck(a)
     THEN UNCHANGED <<messages, audioSpeaker, checks, uuid>>
     ELSE /\ audioSpeaker' = Play(Pause(audioSpeaker), <<"tts", a.n>>)
          /\ uuid' = uuid + 1
          /\ messages' = Append(messages,
                           [role |-> "assistant", content |-> a.text,
                            id |-> uuid + 1, buffer |-> <<"tts", a.n>>,
                            sentiment |-> NoSentiment])
          /\ checks' = EnrichEffect(messages, messages', checks)
  /\ UNCHANGED <<onCall, isSpeaking, detector, transcribing, respondCalls,
                 panels>>
  /\ UNCHANGED server

\* generateText, text_to_speech, blob() or arrayBuffer() rejects: respond
\* ends with an unhandled rejection
RespondFail(a) ==
  /\ a \in attempts
  /\ attempts' = attempts \ {a}
  /\ UNCHANGED <<onCall, messages, isSpeaking, audioSpeaker, detector,
                 transcribing, respondCalls, checks, panels, uuid>>
  /\ UNCHANGED server

(* ---------------------------- asyncChecks ----------------------------- *)
\* a query string is truthy unless it is null or empty
Truthy(q) == q # "null" /\ q # ""

\* variant of ShouldLookup that looks at should_use only
ShouldLookupAnyQuery(d) == d.should_use

\* toolResp[...].should_use && toolResp[...].query
ShouldLookup(d) == d.should_use /\ Truthy(d.query)

\* variant of MergeSentiment that replaces the entry by a fresh record
\* holding only the sentiment
MergeSentimentReplace(prev, id, emotion) ==
  [k \in DOMAIN prev |->
     IF prev[k].id = id
     THEN [prev[k] EXCEPT !.sentiment = emotion, !.content = ""]
     ELSE prev[k]]

\* variant of MergeSentiment that writes to the last entry of the timeline
MergeSentimentLast(prev, id, emotion) ==
  [k \in DOMAIN prev |->
     IF k = Len(prev) THEN [prev[k] EXCEPT !.sentiment = emotion]
     ELSE prev[k]]

\* variant of MergeSentiment that keeps only the entry it annotates
MergeSentimentOnly(prev, id, emotion) ==
  [k \in 1..(IF \E l \in DOMAIN prev : prev[l].id = id THEN 1 ELSE 0) |->
     [(CHOOSE m \in {prev[l] : l \in DOMAIN prev} : m.id = id)
        EXCEPT !.sentiment = emotion]]

\* setMessages(prev => ...) of asyncChecks: attach the sentiment to the
\* entry whose id is lastMessage.id, if there is one
MergeSentiment(prev, id, emotion) ==
  [k \in DOMAIN prev |->
     IF k = CHOOSE m \in DOMAIN prev \cup {0} :
              /\ m # 0 => prev[m].id = id
              /\ \A l \in DOMAIN prev : l < m => prev[l].id # id
              /\ m = 0 => \A l \in DOMAIN prev : prev[l].id # id
     THEN [prev[k] EXCEPT !.sentiment = emotion]
     ELSE prev[k]]

\* the first Promise.all (sentiment, summary, generateObject) resolves and
\* the lookups of the second Promise.all are issued
ChecksAnalyzed(r, emotion, dGeo, dHuman) ==
  /\ r \in checks
  /\ r.pc = "analyze"
  /\ checks' = (checks \ {r}) \cup
                 {[r EXCEPT !.pc = "lookup", !.sentiment = emotion,
                            !.geo = ShouldLookup(dGeo),
                            !.human = ShouldLookup(dHuman)]}
  /\ UNCHANGED <<onCall, messages, isSpeaking, audioSpeaker, detector,
                 transcribing, attempts, respondCalls, panels, uuid>>
  /\ UNCHANGED server

\* variant of geoData that takes the last returned place
geoDataLast(places) == places[Len(places)]

\* geoLocationSearch?.places?.[0]
geoData(places) == places[1]

\* the second Promise.all resolves: panel writes and the sentiment merge
ChecksSettled(r, places, web) ==
  /\ r \in checks
  /\ r.pc = "lookup"
  /\ checks' = checks \ {r}
  /\ locationSearch' = IF r.geo /\ Len(places) > 0 THEN geoData(places)
                       ELSE locationSearch
  /\ IF r.human /\ web = "overview without image_urls"
     THEN \* image_urls.slice throws: the run ends after the location write
          UNCHANGED <<messages, humanResearch, lastSentiment, summary>>
     ELSE /\ humanResearch' = IF r.human THEN web ELSE humanResearch
          /\ lastSentiment' = r.sentiment
          /\ summary' = r.nMessages
          /\ messages' = MergeSentiment(messages, r.srcId, r.sentiment)
  /\ UNCHANGED <<onCall, isSpeaking, audioSpeaker, detector, transcribing,
                 attempts, respondCalls, uuid>>
  /\ UNCHANGED server

\* variant of ChecksFail that writes the summary panel before it ends
ChecksFailWrites(r) ==
  /\ r \in checks
  /\ checks' = checks \ {r}
  /\ summary' = r.nMessages
  /\ UNCHANGED <<onCall, messages, isSpeaking, audioSpeaker, detector,
                 transcribing, attempts, respondCalls, lastSentiment,
                 locationSearch, humanResearch, uuid>>
  /\ UNCHANGED server

\* a call of either Promise.all rejects: asyncChecks ends without writing
ChecksFail(r) ==
  /\ r \in checks
  /\ checks' = checks \ {r}
  /\ UNCHANGED <<onCall, messages, isSpeaking, audioSpeaker, detector,
                 transcribing, attempts, respondCalls, panels, uuid>>
  /\ UNCHANGED server

Decisions == [query : Queries, should_use : BOOLEAN]

\* everything but the detector's onSpeechStart
TurnSteps ==
  \/ HandleCall
  \/ VadCreated
  \/ HandleEndCall
  \/ onSpeechEnd
  \/ \E n \in 1..MaxUtterances, t \in Transcripts : TranscribeDone(n, t)
  \/ \E n \in 1..MaxUtterances : TranscribeFail(n)
  \/ AudioEnded
  \/ \E a \in attempts, t \in Replies : RespondGenerated(a, t)
  \/ \E a \in attempts : RespondSynthesized(a)
  \/ \E a \in attempts : RespondMaterialized(a)
  \/ \E a \in attempts : RespondFail(a)

EnrichSteps ==
  \/ \E r \in checks, e \in Sentiments, dg \in Decisions, dh \in Decisions :
        ChecksAnalyzed(r, e, dg, dh)
  \/ \E r \in checks, p \in PlaceLists, w \in WebResults :
        ChecksSettled(r, p, w)
  \/ \E r \in checks : ChecksFail(r)

\* the whole browser loop; the caller speaks up to MaxEnrichedUtterances
\* utterances
Next ==
  \/ onSpeechStart /\ utterances < MaxEnrichedUtterances
  \/ TurnSteps
  \/ EnrichSteps

Spec == Init /\ [][Next]_vars

\* the Turn Coordinator alone: the enrichment services never answer, the
\* caller speaks up to MaxUtterances utterances
NextTurn ==
  \/ onSpeechStart
  \/ TurnSteps

SpecTurn == Init /\ [][NextTurn]_vars

\* an awaited call of a response attempt settles: it resolves or rejects
RespondSettles ==
  \/ \E a \in attempts, t \in Replies : RespondGenerated(a, t)
  \/ \E a \in attempts : RespondSynthesized(a)
  \/ \E a \in attempts : RespondMaterialized(a)
  \/ \E a \in attempts : RespondFail(a)

\* the Turn Coordinator with every call of a response attempt settling
\* eventually
FairTurn == SpecTurn /\ WF_vars(RespondSettles)

\* the Enrichment Pipeline alone: the text generation service of respond
\* never answers, the caller speaks up to MaxUtterances utterances
NextEnrich ==
  \/ onSpeechStart
  \/ HandleCall
  \/ VadCreated
  \/ HandleEndCall
  \/ onSpeechEnd
  \/ \E n \in 1..MaxUtterances, t \in Transcripts : TranscribeDone(n, t)
  \/ \E n \in 1..MaxUtterances : TranscribeFail(n)
  \/ EnrichSteps

SpecEnrich == Init /\ [][NextEnrich]_vars

(* ====================== analysis tools (helper.ts 78-278) ============== *)
RECURSIVE TrimStart(_)
TrimStart(s) ==
  IF s = <<>> THEN s
  ELSE IF Head(s) = " " THEN TrimStart(Tail(s)) ELSE s

RECURSIVE TrimEnd(_)
TrimEnd(s) ==
  IF s = <<>> THEN s
  ELSE IF s[Len(s)] = " " THEN TrimEnd(SubSeq(s, 1, Len(s) - 1)) ELSE s

\* String.prototype.trim
Trim(s) == TrimEnd(TrimStart(s))

\* the shortest trimmed query that is searched
MinQueryLength == 3

\* variant of searchLocationGuard that measures the untrimmed query
searchLocationGuardUntrimmed(query) ==
  query = <<>> \/ Len(query) < MinQueryLength \/ query = IAm \/ query = Breathe

\* !query || query.trim().length < 3 || query === "I am" || query === "breathe"
searchLocationGuard(query) ==
  \/ query = <<>>
  \/ Len(Trim(query)) < MinQueryLength
  \/ query = IAm
  \/ query = Breathe

\* !name || name.trim().length < 3 || name === "I am"
searchPersonGuard(name) ==
  \/ name = <<>>
  \/ Len(Trim(name)) < MinQueryLength
  \/ name = IAm

ToolGuard(t, q) ==
  IF t = "searchLocation" THEN searchLocationGuard(q) ELSE searchPersonGuard(q)

\* variant of LocationResult that leaves the status out
LocationResultUnlabelled(status) ==
  [NoResult EXCEPT !.tool = "searchLocation",
                   !.latitude = "null", !.longitude = "null"]

\* the result objects of searchLocation that carry no coordinates
LocationResult(status) ==
  [NoResult EXCEPT !.tool = "searchLocation", !.status = status,
                   !.latitude = "null", !.longitude = "null"]

\* the result object of searchLocation that carries coordinates
LocationSuccess(latitude, longitude, query) ==
  [NoResult EXCEPT !.tool = "searchLocation", !.status = "success",
                   !.latitude = latitude, !.longitude = longitude,
                   !.address = query]

\* the result objects of searchPerson
PersonResult(status, name, age, background) ==
  [NoResult EXCEPT !.tool = "searchPerson", !.status = status,
                   !.name = name, !.age = age, !.background = background]

\* execute({query}) up to its first await, or to its return when the
\* guard holds
ToolExecute(t, q) ==
  /\ toolRun = NoRun
  /\ IF ToolGuard(t, q)
     THEN /\ toolRun' = NoRun
          /\ externalCalls' = 0
          /\ toolResult' =
               IF t = "searchLocation" THEN LocationResult("skipped")
               ELSE PersonResult("skipped", q, "null",
                                 "Name query was too vague or short")
     ELSE /\ toolRun' = [tool |-> t, query |-> q, pc |-> "search"]
          /\ externalCalls' = 1
          /\ toolResult' = toolResult
  /\ UNCHANGED <<browser, dispatch, analyzer>>

\* jigsaw.web.search resolves
WebSearchResolves(aiOverview) ==
  /\ toolRun.pc = "search"
  /\ IF aiOverview \in {"undefined", ""}
     THEN /\ toolRun' = NoRun
          /\ externalCalls' = externalCalls
          /\ toolResult' =
               IF toolRun.tool = "searchLocation"
               THEN LocationResult("no_ai_overview")
               ELSE PersonResult("no_ai_overview", toolRun.query, "null",
                                 "No information found")
     ELSE /\ toolRun' = [toolRun EXCEPT !.pc = "extract"]
          /\ externalCalls' = externalCalls + 1
          /\ toolResult' = toolResult
  /\ UNCHANGED <<browser, dispatch, analyzer>>

\* jigsaw.web.search rejects: the inner catch
WebSearchRejects ==
  /\ toolRun.pc = "search"
  /\ toolRun' = NoRun
  /\ toolResult' =
       IF toolRun.tool = "searchLocation" THEN LocationResult("error")
       ELSE PersonResult("error", toolRun.query, "null",
                         "No information found (API error)")
  /\ UNCHANGED <<externalCalls, browser, dispatch, analyzer>>

\* extractCoordinatesWithAI returns: the parsed fields, or null for both
\* when the model call failed or its output could not be parsed
CoordinatesExtracted(latitude, longitude) ==
  /\ toolRun.pc = "extract"
  /\ toolRun.tool = "searchLocation"
  /\ toolRun' = NoRun
  /\ toolResult' =
       IF latitude = "null" \/ longitude = "null"
       THEN LocationResult("no_coordinates")
       ELSE LocationSuccess(latitude, longitude, toolRun.query)
  /\ UNCHANGED <<externalCalls, browser, dispatch, analyzer>>

\* the model call of extractCoordinatesWithAI rejects, or its output cannot
\* be parsed: the catch blocks of extractCoordinatesWithAI return null for
\* both fields and searchLocation goes on as if nothing had been found
CoordinatesExtractionFails ==
  /\ toolRun.pc = "extract"
  /\ toolRun.tool = "searchLocation"
  /\ toolRun' = NoRun
  /\ toolResult' = LocationResult("no_coordinates")
  /\ UNCHANGED <<externalCalls, browser, dispatch, analyzer>>

\* generateText of searchPerson resolves with a parsed object
PersonExtracted(age, background) ==
  /\ toolRun.pc = "extract"
  /\ toolRun.tool = "searchPerson"
  /\ toolRun' = NoRun
  /\ toolResult' =
       PersonResult("success", toolRun.query,
                    IF age \in {"null", "0"} THEN "null" ELSE age,
                    IF background = "" THEN "overview" ELSE background)
  /\ UNCHANGED <<externalCalls, browser, dispatch, analyzer>>

\* generateText of searchPerson resolves with a string that JSON.parse
\* rejects: the fallback object
PersonUnparseable ==
  /\ toolRun.pc = "extract"
  /\ toolRun.tool = "searchPerson"
  /\ toolRun' = NoRun
  /\ toolResult' = PersonResult("success", toolRun.query, "null", "overview")
  /\ UNCHANGED <<externalCalls, browser, dispatch, analyzer>>

\* generateText of searchPerson rejects, or parses to null so that
\* parsed.age throws: the inner catch
PersonExtractionFails ==
  /\ toolRun.pc = "extract"
  /\ toolRun.tool = "searchPerson"
  /\ toolRun' = NoRun
  /\ toolResult' = PersonResult("error", toolRun.query, "null",
                                "No information found (API error)")
  /\ UNCHANGED <<externalCalls, browser, dispatch, analyzer>>

NextTools ==
  \/ \E t \in ToolNames, q \in ToolQueries : ToolExecute(t, q)
  \/ \E o \in Overviews : WebSearchResolves(o)
  \/ WebSearchRejects
  \/ \E la \in Coordinates, lo \in Coordinates : CoordinatesExtracted(la, lo)
  \/ CoordinatesExtractionFails
  \/ \E g \in Ages, b \in Backgrounds : PersonExtracted(g, b)
  \/ PersonUnparseable
  \/ PersonExtractionFails

SpecTools == Init /\ [][NextTools]_vars

(* ====================== analyzeConversation (helper.ts 285-393) ======== *)
MaxToolResults == 2
\* chat.length < 3: too few messages to analyze
MinChatLength == 3
ChatLengths == {MinChatLength - 1, MinChatLength, MinChatLength + 1}

\* the tool results the steps of a run can carry: every result object the
\* two tools return, for an empty, a filler, a padded and a real query
StepResults ==
  {LocationResult(st) :
     st \in {"skipped", "no_ai_overview", "no_coordinates", "error"}}
  \cup {LocationSuccess(la, lo, q) :
          la \in Coordinates \ {"null"}, lo \in Coordinates \ {"null"},
          q \in {PaddedIAm, MainAnd5th}}
  \cup {PersonResult("skipped", q, "null", "Name query was too vague or short") :
          q \in {<<>>, IAm}}
  \cup {PersonResult("no_ai_overview", MainAnd5th, "null", "No information found"),
        PersonResult("error", MainAnd5th, "null", "No information found (API error)"),
        PersonResult("error", MainAnd5th, "null", "Error retrieving information")}
  \cup {PersonResult("success", q, g, b) :
          q \in {PaddedIAm, MainAnd5th}, g \in Ages \ {"0"},
          b \in (Backgrounds \ {""}) \cup {"overview"}}

\* steps[..].toolResults in order, up to MaxToolResults of them
RECURSIVE StepResultLists(_)
StepResultLists(n) ==
  IF n = 0 THEN {<<>>}
  ELSE StepResultLists(n - 1)
         \cup {Append(l, r) : l \in StepResultLists(n - 1), r \in StepResults}

\* a number field is truthy unless it is null or 0
TruthyNumber(x) == x \notin {"null", "0", "undefined"}

\* toolResult.result.latitude && toolResult.result.longitude
AcceptsLocation(result) ==
  TruthyNumber(result.latitude) /\ TruthyNumber(result.longitude)

\* toolResult.result.background &&
\* toolResult.result.background !== "No background found"
AcceptsProfile(result) ==
  result.background \notin {"", "undefined", "No background found"}

\* the loop over the steps' tool results on acc = [location, callerProfile,
\* foundInfo]
RECURSIVE ExtractInfo(_, _)
ExtractInfo(acc, results) ==
  IF results = <<>> THEN acc
  ELSE LET stepResult == Head(results)
           next ==
             IF stepResult.tool = "searchLocation"
             THEN IF AcceptsLocation(stepResult)
                  THEN [acc EXCEPT !.location = stepResult, !.foundInfo = TRUE]
                  ELSE acc
             ELSE IF stepResult.tool = "searchPerson"
             THEN IF AcceptsProfile(stepResult)
                  THEN [acc EXCEPT !.callerProfile = stepResult,
                                   !.foundInfo = TRUE]
                  ELSE acc
             ELSE acc
       IN ExtractInfo(next, Tail(results))

\* notificationParts
NotificationParts(location, callerProfile) ==
  (IF location # NoResult /\ TruthyNumber(location.latitude)
        /\ TruthyNumber(location.longitude)
   THEN <<"Location identified">> ELSE <<>>)
  \o (IF callerProfile # NoResult /\ callerProfile.name # <<>>
      THEN <<"Caller identified">>
             \o (IF callerProfile.background \notin {"", "undefined"}
                 THEN <<"Background">> ELSE <<>>)
      ELSE <<>>)

\* what analyzeConversation returns for the tool results of its steps
Analysed(results) ==
  LET acc == ExtractInfo([location |-> NoResult, callerProfile |-> NoResult,
                          foundInfo |-> FALSE], results)
      parts == NotificationParts(acc.location, acc.callerProfile)
  IN [location |-> acc.location,
      callerProfile |-> acc.callerProfile,
      newMessage |->
        IF acc.foundInfo /\ parts # <<>>
        THEN [role |-> "assistant", content |-> parts, id |-> "randomUUID",
              buffer |-> "ArrayBuffer(0)", isSystemNotification |-> TRUE]
        ELSE NoMessage]

\* analyzeConversation(messages) up to the await of generateText, or to its
\* return when the conversation is too short
Analyze(chat) ==
  /\ analysis = NoAnalysis
  /\ IF chat < MinChatLength
     THEN /\ analysis' = NoAnalysis
          /\ analysed' = NothingFound
     ELSE /\ analysis' = [pc |-> "generateText", chat |-> chat]
          /\ analysed' = analysed
  /\ UNCHANGED <<browser, tools, dispatch>>

\* generateText resolves with its steps
AnalysisResolves(results) ==
  /\ analysis.pc = "generateText"
  /\ analysis' = NoAnalysis
  /\ analysed' = Analysed(results)
  /\ UNCHANGED <<browser, tools, dispatch>>

\* variant of AnalysisRejects without the catch: nothing is returned
AnalysisRejectsUncaught ==
  /\ analysis.pc = "generateText"
  /\ analysis' = NoAnalysis
  /\ analysed' = [NothingFound EXCEPT !.newMessage.role = "uncaught"]
  /\ UNCHANGED <<browser, tools, dispatch>>

\* generateText rejects: the catch of analyzeConversation
AnalysisRejects ==
  /\ analysis.pc = "generateText"
  /\ analysis' = NoAnalysis
  /\ analysed' = NothingFound
  /\ UNCHANGED <<browser, tools, dispatch>>

\* analyzeConversation alone, for every list of tool results of its steps
NextAnalysis ==
  \/ \E n \in ChatLengths : Analyze(n)
  \/ \E l \in StepResultLists(MaxToolResults) : AnalysisResolves(l)
  \/ AnalysisRejects

SpecAnalysis == Init /\ [][NextAnalysis]_vars

\* the analysis route with its external calls: analyzeConversation with at
\* most one tool result, and the tools called with an empty, a filler, a
\* padded and a real query
NextRoute ==
  \/ \E n \in ChatLengths : Analyze(n)
  \/ \E l \in {<<>>} \cup {<<r>> : r \in StepResults} : AnalysisResolves(l)
  \/ AnalysisRejects
  \/ \E t \in ToolNames, q \in {<<>>, IAm, PaddedIAm, MainAnd5th} : ToolExecute(t, q)
  \/ \E o \in Overviews : WebSearchResolves(o)
  \/ WebSearchRejects
  \/ \E la \in Coordinates, lo \in Coordinates : CoordinatesExtracted(la, lo)
  \/ CoordinatesExtractionFails
  \/ \E g \in Ages, b \in Backgrounds : PersonExtracted(g, b)
  \/ PersonUnparseable
  \/ PersonExtractionFails

SpecRoute == Init /\ [][NextRoute]_vars

(* ====================== response/tool dispatch (part_001) ============== *)
\* variant of Initialised that activates the session it finds
InitialisedKeepsHistory(cs) == [cs EXCEPT !.isActive = TRUE]

\* conversationState after the initialisation block of handleUserMessage
Initialised(cs) ==
  IF ~cs.isActive
  THEN [messages |-> <<Entry("system", SystemPrompt)>>, isActive |-> TRUE,
        hasEnded |-> FALSE, endReason |-> NoEndReason]
  ELSE cs

\* handleUserMessage(userMessage) up to the await of the model call, or to
\* its return when the call has already ended
HandleUserMessage(userMessage) ==
  /\ turns < MaxTurns
  /\ turns' = turns + 1
  /\ LET cs == Initialised(conversationState) IN
       IF cs.hasEnded
       THEN /\ conversationState' = cs
            /\ returned' = [call |-> turns + 1, kind |-> "ended",
                            response |-> "This emergency call has already ended",
                            hasEnded |-> TRUE]
            /\ pending' = pending
       ELSE /\ conversationState' =
                 [cs EXCEPT !.messages = Append(@, Entry("user", userMessage))]
            /\ pending' = pending \cup {[call |-> turns + 1, pc |-> "tools"]}
            /\ returned' = returned
  /\ UNCHANGED <<lookups, browser, tools, analyzer>>

\* the assistant entry pushed for a response; the model's tool call ids are
\* made distinct by the entry's position p and the call's index
ResponseEntry(content, toolCalls, p) ==
  [role |-> "assistant", content |-> content,
   tool_calls |-> [k \in 1..Len(toolCalls) |->
                     [id |-> <<p, k>>, name |-> toolCalls[k].name,
                      arguments |-> toolCalls[k].arguments]],
   tool_call_id |-> NoToolCallId]

\* one iteration of the tool loop on st = [cs, lookups, thrown]
ExecuteToolCall(st, toolCall) ==
  LET functionName == toolCall.name
      functionArgs == toolCall.arguments
      functionResponse ==
        IF functionName = "search-map" THEN "map results"
        ELSE IF functionName = "search-person" THEN "person results"
        ELSE IF functionName = "end-call" THEN "ended"
        ELSE ""
      cs1 == IF functionName = "end-call"
             THEN [st.cs EXCEPT !.hasEnded = TRUE,
                                !.endReason = functionArgs.reason]
             ELSE st.cs
  IN [cs |-> [cs1 EXCEPT !.messages =
                Append(@, [role |-> "tool", content |-> functionResponse,
                           tool_calls |-> <<>>,
                           tool_call_id |-> toolCall.id])],
      lookups |-> IF functionName \in {"search-map", "search-person"}
                  THEN st.lookups \cup
                         {[tool |-> functionName, query |-> functionArgs.query]}
                  ELSE st.lookups,
      thrown |-> FALSE]

\* for (const toolCall of toolCalls): JSON.parse throws on malformed
\* arguments and ends the loop
RECURSIVE ExecuteToolCalls(_, _)
ExecuteToolCalls(st, toolCalls) ==
  IF toolCalls = <<>> THEN st
  ELSE IF ~Head(toolCalls).arguments.ok THEN [st EXCEPT !.thrown = TRUE]
  ELSE ExecuteToolCalls(ExecuteToolCall(st, Head(toolCalls)), Tail(toolCalls))

\* variant of EndsWithoutModel that always short-circuits
EndsWithoutModelAlways(cs) == TRUE

\* variant of EndsWithoutModel that never short-circuits
EndsWithoutModelNever(cs) == FALSE

\* handleToolResponse: if (conversationState.hasEnded) return ...
EndsWithoutModel(cs) == cs.hasEnded

\* the first model call of handleUserMessage resolves: the assistant entry,
\* the tool loop and handleToolResponse up to its return or its model call
ModelResponds(c, content, toolCalls) ==
  /\ c \in pending
  /\ c.pc = "tools"
  /\ LET p == Len(conversationState.messages) + 1
         responseMessage == ResponseEntry(content, toolCalls, p)
         pushed == [conversationState EXCEPT
                      !.messages = Append(@, responseMessage)]
         st == ExecuteToolCalls([cs |-> pushed, lookups |-> lookups,
                                 thrown |-> FALSE],
                                responseMessage.tool_calls)
     IN /\ conversationState' = st.cs
        /\ lookups' = st.lookups
        /\ IF st.thrown
           THEN /\ pending' = pending \ {c}
                /\ returned' = [call |-> c.call, kind |-> "throw",
                                response |-> "", hasEnded |-> FALSE]
           ELSE IF toolCalls = <<>>
           THEN /\ pending' = pending \ {c}
                /\ returned' =
                     [call |-> c.call, kind |-> "reply",
                      response |-> IF content # "" THEN content
                                   ELSE "I'm connecting you with emergency services.",
                      hasEnded |-> st.cs.hasEnded]
           ELSE IF EndsWithoutModel(st.cs)
           THEN /\ pending' = pending \ {c}
                /\ returned' = [call |-> c.call, kind |-> "call ended",
                                response |-> st.cs.endReason,
                                hasEnded |-> TRUE]
           ELSE /\ pending' = (pending \ {c}) \cup {[c EXCEPT !.pc = "followup"]}
                /\ returned' = returned
  /\ UNCHANGED <<turns, browser, tools, analyzer>>

\* the model call of handleToolResponse resolves
FollowupResponds(c, content) ==
  /\ c \in pending
  /\ c.pc = "followup"
  /\ pending' = pending \ {c}
  /\ conversationState' =
       [conversationState EXCEPT
          !.messages = Append(@, Entry("assistant", content))]
  /\ returned' =
       [call |-> c.call, kind |-> "reply",
        response |-> IF content # "" THEN content
                     ELSE "I'm processing your emergency. Stay on the line.",
        hasEnded |-> conversationState.hasEnded]
  /\ UNCHANGED <<lookups, turns, browser, tools, analyzer>>

\* a model call rejects: handleUserMessage rejects, nothing is caught
ModelRejects(c) ==
  /\ c \in pending
  /\ pending' = pending \ {c}
  /\ returned' = [call |-> c.call, kind |-> "throw", response |-> "",
                  hasEnded |-> FALSE]
  /\ UNCHANGED <<conversationState, lookups, turns, browser, tools, analyzer>>

ResetConversation ==
  /\ conversationState' = NewSession
  /\ UNCHANGED <<pending, returned, lookups, turns, browser, tools, analyzer>>

\* the model invocation call c awaits was made with tools (handleUserMessage)
\* or without (handleToolResponse)
ToolAccess(c) == c.pc = "tools"

NextDispatch ==
  \/ \E u \in UserMessages : HandleUserMessage(u)
  \/ \E c \in pending, m \in ModelResponses :
       ModelResponds(c, m.content, m.tool_calls)
  \/ \E c \in pending, content \in ModelContents : FollowupResponds(c, content)
  \/ \E c \in pending : ModelRejects(c)
  \/ ResetConversation

SpecDispatch == Init /\ [][NextDispatch]_vars

\* a model call of the dispatch settles: it resolves or rejects
ModelSettles ==
  \/ \E c \in pending, m \in ModelResponses :
       ModelResponds(c, m.content, m.tool_calls)
  \/ \E c \in pending, content \in ModelContents : FollowupResponds(c, content)
  \/ \E c \in pending : ModelRejects(c)

\* the dispatch with every model call settling eventually
FairDispatch == SpecDispatch /\ WF_vars(ModelSettles)

(* ====================== properties of the Turn Coordinator ============= *)

\* attempt a appends its assistant Message in this step
Commits(a) ==
  /\ Len(messages') = Len(messages) + 1
  /\ Last(messages').role = "assistant"
  /\ Last(messages').buffer = <<"tts", a.n>>

\* playback of attempt a's audio begins in this step
StartsPlayback(a) ==
  /\ audioSpeaker' # audioSpeaker
  /\ audioSpeaker'.src = <<"tts", a.n>>
  /\ ~audioSpeaker'.paused

\* attempt a takes no further part after this step: it is gone and has
\* neither appended nor played anything
Abandons(a) ==
  /\ \A b \in attempts' : b.n # a.n
  /\ messages' = messages
  /\ audioSpeaker' = audioSpeaker

\* attempt a passes one of its suspension points in this step
Passes(a) == a \in attempts /\ a \notin attempts'

\* the live timeline still ends with the Message attempt a captured and the
\* caller-speaking flag is clear
Fresh(a) == LastIdOrNull(messages) = a.lastID /\ ~isSpeaking

\* C1: an attempt that captured last-message id X appends its assistant
\* Message and starts playback only if the last entry of the live timeline
\* still has id X at that moment.
C1_OnlyFreshAttemptCommits ==
  [][\A a \in attempts :
       (Commits(a) \/ StartsPlayback(a)) => LastIdOrNull(messages) = a.lastID]_vars

\* C2: no two adjacent timeline entries both have role assistant.
C2_NoAdjacentAssistants ==
  \A k \in 1..(Len(messages) - 1) :
    ~(messages[k].role = "assistant" /\ messages[k + 1].role = "assistant")

\* C3: an attempt that passes a suspension point while the caller is
\* speaking (the flag is set and an utterance is in progress) abandons: it
\* appends no assistant Message and starts no playback.
C3_AbandonsWhileCallerSpeaks ==
  [][\A a \in attempts :
       (isSpeaking /\ speechInProgress /\ Passes(a)) => Abandons(a)]_vars

\* C4: a fresh result is never dropped: an attempt whose external call
\* resolves while the timeline still ends with the captured id and the
\* caller is not speaking moves on to its next stage, and at the last stage
\* appends exactly one assistant Message and starts playback of its audio.
C4_FreshResultCommits ==
  [][\A a \in attempts : Fresh(a) =>
       /\ (\E t \in Replies : RespondGenerated(a, t)) =>
             /\ \E b \in attempts' : b.n = a.n /\ b.pc = "synthesize"
             /\ messages' = messages
       /\ RespondSynthesized(a) =>
             /\ \E b \in attempts' : b.n = a.n /\ b.pc = "blob"
             /\ messages' = messages
       /\ RespondMaterialized(a) =>
             /\ Commits(a)
             /\ StartsPlayback(a)
             /\ \A k \in DOMAIN messages : messages'[k] = messages[k]
             /\ \A b \in attempts' : b.n # a.n]_vars

\* C4 witness: the only utterance was answered: its attempt stayed fresh up
\* to the commit, the reply is on the timeline and is playing
C4_Witness ==
  /\ utterances = 1
  /\ Len(messages) = 2
  /\ messages[1].role = "user"
  /\ messages[2].role = "assistant"
  /\ audioSpeaker.src = messages[2].buffer
  /\ ~audioSpeaker.paused

\* C5: a response attempt is started only in a state where the caller is
\* not speaking (flag clear, no utterance in progress) and the last timeline
\* entry has role user.
C5_AttemptStartsOnlyWhenSilent ==
  [][respondCalls' # respondCalls =>
       /\ ~isSpeaking'
       /\ ~speechInProgress'
       /\ atLeastOneUnresponded(messages')]_vars

\* C6: every appended user Message triggers a turn-check: when a user
\* Message is appended during a call and the caller-speaking flag is clear
\* afterwards, a response attempt stamped with that Message's id is in
\* flight.
C6_EveryUserMessageGetsAttempt ==
  [][(Len(messages') > Len(messages) /\ Last(messages').role = "user"
        /\ ~isSpeaking' /\ onCall')
       => \E a \in attempts' : a.lastID = Last(messages').id]_vars

\* C7: for each user Message id at most one response attempt stamped with
\* that id is started.
C7_OneAttemptPerUserMessage ==
  \A a, b \in attempts : a.lastID = b.lastID => a = b

\* C8: when onSpeechStart fires, playback is paused in that same step and
\* the only other effect is setting the caller-speaking flag: the timeline,
\* the in-flight response attempts and the in-flight enrichment runs are
\* left as they are.
C8_SpeechStartPausesOnly ==
  [][utterances' # utterances =>
       /\ audioSpeaker'.paused
       /\ audioSpeaker'.src = audioSpeaker.src
       /\ isSpeaking'
       /\ UNCHANGED <<messages, attempts, respondCalls, checks, transcribing,
                      onCall, panels, uuid>>]_vars

\* C8 witness: playback was interrupted by onSpeechStart (paused before the
\* end of its source) while an enrichment run is in flight
C8_Witness ==
  /\ isSpeaking
  /\ speechInProgress
  /\ audioSpeaker.paused
  /\ ~audioSpeaker.ended
  /\ audioSpeaker.src # NoBuffer
  /\ checks # {}

DistinctIds ==
  \A k, l \in DOMAIN messages : messages[k].id = messages[l].id => k = l

\* C10: the timeline is append-only: every step keeps every existing entry
\* at its position with the same id, role and content (only its sentiment
\* may change), and all ids in the timeline are pairwise distinct.
C10_AppendOnly ==
  /\ []DistinctIds
  /\ [][/\ Len(messages') >= Len(messages)
         /\ \A k \in DOMAIN messages :
               messages'[k] = [messages[k] EXCEPT !.sentiment = messages'[k].sentiment]]_vars

\* C10 witness: the user entry got its sentiment merged after the assistant
\* entry had been appended behind it
C10_Witness ==
  /\ Len(messages) >= 2
  /\ messages[1].role = "user"
  /\ messages[1].sentiment # NoSentiment
  /\ messages[2].role = "assistant"

(* ====================== properties of the Enrichment Pipeline ========= *)

\* run r reaches its panel writes and sentiment merge in this step
Merges(r) ==
  \E p \in PlaceLists, w \in WebResults :
    /\ ChecksSettled(r, p, w)
    /\ ~(r.human /\ w = "overview without image_urls")

\* some enrichment run advances or ends in this step
EnrichmentActs == \E r \in checks : r \notin checks'

\* C11: when an enrichment run settles, its sentiment label is attached to
\* exactly the Message whose id the run captured at its start, wherever that
\* Message now is; every other Message is unchanged; a merge for an id that
\* is not on the timeline leaves the timeline unchanged.
C11_SentimentOnCapturedMessage ==
  /\ [](\A id \in 0..(uuid + 1), e \in Sentiments :
          (\A k \in DOMAIN messages : messages[k].id # id)
            => MergeSentiment(messages, id, e) = messages)
  /\ [][\A r \in checks : Merges(r) =>
          /\ Len(messages') = Len(messages)
          /\ \A k \in DOMAIN messages :
                messages'[k] = IF messages[k].id = r.srcId
                               THEN [messages[k] EXCEPT !.sentiment = r.sentiment]
                               ELSE messages[k]]_vars

\* C11 witness: the run of the first utterance settled after the run of the
\* second one (it was the last to write the summary), so its sentiment was
\* attached to the first entry with a later entry behind it
C11_Witness ==
  /\ Len(messages) = 2
  /\ messages[1].sentiment # NoSentiment
  /\ messages[2].sentiment # NoSentiment
  /\ summary = 1

\* C12: stale enrichment is discarded: a run that ends when the panels
\* already hold the results of a run started for a later utterance (the
\* summary covers more Messages than this run saw) leaves the panel state
\* as it is.
C12_StaleEnrichmentDiscarded ==
  [][\A r \in checks :
       (r \notin checks' /\ summary > r.nMessages) => UNCHANGED panels]_vars

\* C13: an enrichment run never changes the caller-speaking flag, the
\* playback state, the length or order of the timeline, or the in-flight
\* response attempts.
C13_EnrichmentDoesNotGate ==
  [][EnrichmentActs =>
       /\ UNCHANGED <<isSpeaking, audioSpeaker, attempts, respondCalls,
                      onCall, transcribing, detector, uuid>>
       /\ Len(messages') = Len(messages)
       /\ \A k \in DOMAIN messages :
             /\ messages'[k].id = messages[k].id
             /\ messages'[k].role = messages[k].role]_vars

\* C13 witness: the reply to the utterance was committed while the
\* enrichment run for that utterance is still outstanding
C13_Witness ==
  /\ Len(messages) = 2
  /\ messages[2].role = "assistant"
  /\ \E r \in checks : r.srcId = messages[1].id

\* C14: the place lookup is issued iff the decision step returns
\* should_use = true with a non-empty query for location, the person lookup
\* iff it does so for person; a run that did not issue a lookup does not
\* write the corresponding panel.
C14_LookupIffDecided ==
  [][\A r \in checks :
       /\ \A e \in Sentiments, dg \in Decisions, dh \in Decisions :
             ChecksAnalyzed(r, e, dg, dh) =>
               \E r2 \in checks' :
                 /\ r2.srcId = r.srcId
                 /\ r2.pc = "lookup"
                 /\ r2.geo <=> (dg.should_use /\ dg.query \notin {"null", ""})
                 /\ r2.human <=> (dh.should_use /\ dh.query \notin {"null", ""})
       /\ (r.pc = "lookup" /\ r \notin checks') =>
             /\ ~r.geo => locationSearch' = locationSearch
             /\ ~r.human => humanResearch' = humanResearch]_vars

\* C14 witness: a run went through its decision step and issued the person
\* lookup but not the place lookup
C14_Witness ==
  \E r \in checks : r.pc = "lookup" /\ ~r.geo /\ r.human

\* C15: when the place lookup of a run returns at least one place, the
\* location panel becomes the first returned place; when it returns none,
\* the location panel is left unchanged.
C15_FirstPlaceWins ==
  [][\A r \in checks, p \in PlaceLists, w \in WebResults :
       (r.geo /\ ChecksSettled(r, p, w)) =>
         locationSearch' = IF Len(p) > 0 THEN p[1] ELSE locationSearch]_vars

\* C15 witness: the location panel holds the first of two returned places
C15_Witness == locationSearch = "Downtown"

(* ====================== properties of the analysis tools =============== *)

\* C16: a searchLocation call whose query is empty, has trimmed length
\* below 3 or equals "I am" or "breathe", and a searchPerson call whose name
\* is empty, has trimmed length below 3 or equals "I am", returns a result
\* with status "skipped" and makes no external search or model call.
C16_TrivialQuerySkipped ==
  [][\A t \in ToolNames, q \in ToolQueries :
       (/\ ToolExecute(t, q)
        /\ \/ q = <<>>
           \/ Len(Trim(q)) < MinQueryLength
           \/ q = IAm
           \/ (t = "searchLocation" /\ q = Breathe))
       => /\ toolRun' = NoRun
          /\ externalCalls' = 0
          /\ toolResult'.tool = t
          /\ toolResult'.status = "skipped"]_vars

\* C16 witness: searchPerson was called with a name of three characters
\* whose trimmed length is one, and returned skipped without a call
C16_Witness ==
  /\ toolRun = NoRun
  /\ externalCalls = 0
  /\ toolResult.tool = "searchPerson"
  /\ toolResult.status = "skipped"
  /\ toolResult.name = <<" ", "a", " ">>

\* C18 as stated: every result of a tool invocation carries a status that
\* is one of skipped, no_data, success, error.
C18_StatusInSpecSet ==
  toolResult.tool # "none" =>
    toolResult.status \in {"skipped", "no_data", "success", "error"}

\* C18 as the code has it: every result of a tool invocation carries a
\* status that is one of skipped, no_ai_overview, no_coordinates, success,
\* error; no_coordinates only from searchLocation; and each path sets its
\* own status (missing overview, external failure, missing coordinates,
\* success).
C18_StatusInCodeSet ==
  /\ [](toolResult.tool # "none" =>
          /\ toolResult.status \in {"skipped", "no_ai_overview",
                                     "no_coordinates", "success", "error"}
          /\ (toolResult.status = "no_coordinates"
                => toolResult.tool = "searchLocation"))
  /\ [][
       /\ (\E o \in {"undefined", ""} : WebSearchResolves(o))
            => toolResult'.status = "no_ai_overview"
       /\ (WebSearchRejects \/ PersonExtractionFails)
            => toolResult'.status = "error"
       /\ \A la \in Coordinates, lo \in Coordinates :
            CoordinatesExtracted(la, lo) =>
              toolResult'.status =
                IF la = "null" \/ lo = "null" THEN "no_coordinates"
                ELSE "success"
     ]_vars

\* C18 witness: searchLocation returned because the overview held no
\* coordinates
C18_Witness ==
  /\ toolRun = NoRun
  /\ toolResult.tool = "searchLocation"
  /\ toolResult.status = "no_coordinates"

(* ====================== properties of the dispatch ===================== *)

\* C17: in handleUserMessage a location-search or person-search tool call
\* whose argument is shorter than 3 characters or is a filler phrase is
\* rejected: the underlying lookup (searchMap / searchPerson) is never
\* executed with such an argument.
C17_DispatchRejectsTrivialQuery ==
  \A l \in lookups :
    /\ Len(l.query) >= MinQueryLength
    /\ l.query \notin {IAm, Breathe}

\* C19: every assistant entry of the context that requests n tool calls is
\* directly followed by exactly n tool-role entries, one per tool call id
\* and in call order.
C19_ToolResultsFollowRequest ==
  LET msgs == conversationState.messages IN
    \A p \in DOMAIN msgs :
      (msgs[p].role = "assistant" /\ msgs[p].tool_calls # <<>>) =>
        LET n == Len(msgs[p].tool_calls) IN
          /\ p + n <= Len(msgs)
          /\ \A k \in 1..n :
               /\ msgs[p + k].role = "tool"
               /\ msgs[p + k].tool_call_id = msgs[p].tool_calls[k].id
          /\ p + n + 1 \in DOMAIN msgs => msgs[p + n + 1].role # "tool"

\* the model's response is handled to the end of the tool loop: JSON.parse
\* accepts the arguments of each of its tool calls
WellFormed(toolCalls) ==
  \A k \in DOMAIN toolCalls : toolCalls[k].arguments.ok

\* the reason of the last end-call of the response
LastEndReason(toolCalls) ==
  LET k == CHOOSE i \in DOMAIN toolCalls :
             /\ toolCalls[i].name = "end-call"
             /\ \A j \in DOMAIN toolCalls :
                  j > i => toolCalls[j].name # "end-call"
  IN toolCalls[k].arguments.reason

\* the call c returns in this step with hasEnded = true, on an ended
\* session, and issues no further model call
ReturnsEnded(c) ==
  /\ returned'.call = c.call
  /\ returned'.kind # "throw"
  /\ returned'.hasEnded
  /\ conversationState'.hasEnded
  /\ \A d \in pending' : d.call # c.call

\* C20 as stated: when the model's response includes an end-call tool call
\* with reason r and handleUserMessage returns, the session has
\* hasEnded = true and endReason = r, the result has hasEnded = true and no
\* further model invocation is made in that turn.
C20_EndCallRecordsItsReason ==
  [][\A c \in pending, m \in ModelResponses :
       \A k \in DOMAIN m.tool_calls :
         (/\ ModelResponds(c, m.content, m.tool_calls)
          /\ WellFormed(m.tool_calls)
          /\ m.tool_calls[k].name = "end-call")
         => /\ ReturnsEnded(c)
            /\ conversationState'.endReason = m.tool_calls[k].arguments.reason
    ]_vars

\* C20 as the code has it: the same, with endReason = the reason of the
\* last end-call tool call of the response.
C20_LastEndCallRecordsItsReason ==
  [][\A c \in pending, m \in ModelResponses :
       (/\ ModelResponds(c, m.content, m.tool_calls)
        /\ WellFormed(m.tool_calls)
        /\ \E k \in DOMAIN m.tool_calls : m.tool_calls[k].name = "end-call")
       => /\ ReturnsEnded(c)
          /\ conversationState'.endReason = LastEndReason(m.tool_calls)
    ]_vars

\* C20 witness: a response with two end-call tool calls of different
\* reasons was handled; the call returned and the second reason is recorded
C20_Witness ==
  /\ returned.kind = "call ended"
  /\ returned.hasEnded
  /\ conversationState.hasEnded
  /\ conversationState.endReason = "emergency handled"
  /\ \E p \in DOMAIN conversationState.messages :
       LET e == conversationState.messages[p] IN
         /\ Len(e.tool_calls) = 2
         /\ e.tool_calls[1].name = "end-call"
         /\ e.tool_calls[1].arguments.reason = "help dispatched"
         /\ e.tool_calls[2].name = "end-call"
         /\ e.tool_calls[2].arguments.reason = "emergency handled"

\* C21: once the session has hasEnded = true, every later handleUserMessage
\* call returns the fixed terminal response with hasEnded = true, starts no
\* model call, runs no tool and leaves the context unchanged; hasEnded stays
\* true until resetConversation is called.
C21_EndedSessionIsTerminal ==
  [][/\ \A u \in UserMessages :
          (conversationState.hasEnded /\ HandleUserMessage(u)) =>
            /\ returned'.call = turns'
            /\ returned'.kind = "ended"
            /\ returned'.hasEnded
            /\ conversationState'.messages = conversationState.messages
            /\ pending' = pending
            /\ lookups' = lookups
     /\ (conversationState.hasEnded /\ ~ResetConversation)
          => conversationState'.hasEnded
    ]_vars

HasEndCall(toolCalls) ==
  \E k \in DOMAIN toolCalls : toolCalls[k].name = "end-call"

\* call number n is settled in this state or the next
Settled(n) == \A d \in pending : d.call # n

C23_NoUncaughtFailure ==
  /\ returned.kind # "throw"
  /\ (pending = {} /\ conversationState.messages # <<>>)
       => Last(conversationState.messages).role # "user"

(* ====================== properties of the analysis route =============== *)

\* the external call a tool awaits fails
ExternalCallFails ==
  WebSearchRejects \/ CoordinatesExtractionFails \/ PersonExtractionFails

\* the fields of a tool result that hold what was found are null
NothingExtracted(result) ==
  IF result.tool = "searchLocation"
  THEN result.latitude = "null" /\ result.longitude = "null"
  ELSE result.age = "null"

\* C24 as stated: when the web search or the extraction model call of
\* searchLocation or searchPerson fails, the tool returns a result with
\* status error and null coordinates / null age; analyzeConversation
\* returns null for all three fields when its model call fails.
C24_ExternalFailureGivesError ==
  [][/\ ExternalCallFails =>
          /\ toolRun' = NoRun
          /\ toolResult'.tool = toolRun.tool
          /\ toolResult'.status = "error"
          /\ NothingExtracted(toolResult')
     /\ AnalysisRejects => (analysis' = NoAnalysis /\ analysed' = NothingFound)
    ]_vars

\* C24 as the code has it: no failure escapes; a failed web search gives
\* status error in both tools, a failed extraction gives status error in
\* searchPerson and status no_coordinates in searchLocation, always with
\* null coordinates / null age; analyzeConversation returns null for all
\* three fields when its model call fails.
C24_ExternalFailureIsAbsorbed ==
  [][/\ ExternalCallFails =>
          /\ toolRun' = NoRun
          /\ toolResult'.tool = toolRun.tool
          /\ toolResult'.status =
               IF toolRun.tool = "searchLocation" /\ toolRun.pc = "extract"
               THEN "no_coordinates" ELSE "error"
          /\ NothingExtracted(toolResult')
     /\ AnalysisRejects => (analysis' = NoAnalysis /\ analysed' = NothingFound)
    ]_vars

\* C24 witness: searchPerson returned status error after its second
\* external call, the extraction, had failed
C24_Witness ==
  /\ toolRun = NoRun
  /\ externalCalls = 2
  /\ toolResult.tool = "searchPerson"
  /\ toolResult.status = "error"
  /\ toolResult.age = "null"

(* ====================== properties of failed external calls ============ *)

\* C25: if the transcription of a finalized utterance fails, no Message is
\* appended for that utterance and no response attempt or enrichment run
\* is started for it: the failing step changes neither the timeline, the
\* attempts nor the runs; a user Message for utterance n is only appended
\* by the step in which the transcription of n succeeds; and an utterance
\* is handed to transcription once, when the detector finalizes it.
C25_FailedTranscriptionAbandonsTurn ==
  [][
     /\ \A n \in 1..MaxUtterances :
          TranscribeFail(n) =>
            UNCHANGED <<messages, attempts, respondCalls, checks, uuid>>
     /\ \A k \in DOMAIN messages' \ DOMAIN messages :
          messages'[k].role = "user" =>
            \E t \in Transcripts : TranscribeDone(messages'[k].buffer[2], t)
     /\ \A n \in transcribing' \ transcribing :
          onSpeechEnd /\ n = utterances /\ speechInProgress
     /\ (speechInProgress' /\ ~speechInProgress)
          => utterances' = utterances + 1
    ]_vars

\* C25 witness: the only utterance so far was finalized and its
\* transcription has failed: nothing is in flight and the timeline is empty
C25_Witness ==
  /\ onCall
  /\ utterances = 1
  /\ ~speechInProgress
  /\ transcribing = {}
  /\ messages = <<>>
  /\ attempts = {}
  /\ checks = {}

\* C26: resetConversation returns the session to its initial state from any
\* state; a handleUserMessage call that finds no active session creates a
\* session whose context is exactly [system prompt, that user message] when
\* the model is invoked, whatever the previous session held; an active
\* session is never re-initialised by handleUserMessage.
C26_ResetThenFreshSession ==
  [][
     /\ ResetConversation =>
          conversationState' =
            [messages |-> <<>>, isActive |-> FALSE, hasEnded |-> FALSE,
             endReason |-> NoEndReason]
     /\ \A u \in UserMessages :
          (HandleUserMessage(u) /\ ~conversationState.isActive) =>
            /\ conversationState' =
                 [messages |-> <<Entry("system", SystemPrompt), Entry("user", u)>>,
                  isActive |-> TRUE, hasEnded |-> FALSE,
                  endReason |-> NoEndReason]
            /\ [call |-> turns', pc |-> "tools"] \in pending'
     /\ \A u \in UserMessages :
          (HandleUserMessage(u) /\ conversationState.isActive) =>
            /\ conversationState'.isActive
            /\ conversationState'.hasEnded = conversationState.hasEnded
            /\ conversationState'.endReason = conversationState.endReason
            /\ conversationState'.messages \in
                 {conversationState.messages,
                  Append(conversationState.messages, Entry("user", u))}
    ]_vars

\* C26 witness: the first call ended the session through end-call; after a
\* reset the second call invokes the model on a context of exactly the
\* system prompt and its user message
C26_Witness ==
  /\ turns = 2
  /\ returned.call = 1
  /\ returned.kind = "call ended"
  /\ pending = {[call |-> 2, pc |-> "tools"]}
  /\ ~conversationState.hasEnded
  /\ Len(conversationState.messages) = 2
  /\ conversationState.messages[1].role = "system"
  /\ conversationState.messages[2].role = "user"

\* C27: an explicit call end (handleEndCall) resets the live session:
\* afterwards the timeline holds no Message of the ended call, so a call
\* started next begins with an empty timeline.
C27_EndCallClearsTimeline ==
  [][
     /\ HandleEndCall => messages' = <<>>
     /\ HandleCall => messages = <<>>
    ]_vars

\* the placeholder backgrounds searchPerson emits on its skipped,
\* no-overview and error paths
PlaceholderBackgrounds ==
  {"Name query was too vague or short", "No information found",
   "No information found (API error)", "Error retrieving information"}

\* C28: a person-search result becomes callerProfile only if its background
\* is non-empty and not a placeholder of the search component: results of
\* the skipped, no-overview and error paths of searchPerson never become the
\* callerProfile and never produce a system notification.
C28_PlaceholderNeverProfile ==
  /\ analysed.callerProfile.background \notin PlaceholderBackgrounds \cup {""}
  /\ (analysed.newMessage # NoMessage /\ analysed.location = NoResult)
       => analysed.callerProfile.status = "success"

\* a searchLocation result with a non-null latitude and longitude
ValidPair(result) ==
  /\ result.tool = "searchLocation"
  /\ result.latitude \notin {"null", "undefined"}
  /\ result.longitude \notin {"null", "undefined"}

\* C29: for a conversation of at least 3 messages, the returned location is
\* non-null if and only if some searchLocation result of the run has both a
\* non-null latitude and a non-null longitude, the last such result winning;
\* the returned newMessage is non-null (role assistant, isSystemNotification
\* true, empty audio buffer, fresh id) if and only if the returned location
\* or callerProfile is non-null.
C29_LocationAndNotification ==
  [][
     \A l \in StepResultLists(MaxToolResults) :
       (AnalysisResolves(l) /\ analysis.chat >= MinChatLength) =>
         /\ (analysed'.location # NoResult)
              <=> (\E k \in 1..Len(l) : ValidPair(l[k]))
         /\ \A k \in 1..Len(l) :
              (ValidPair(l[k]) /\ \A j \in (k + 1)..Len(l) : ~ValidPair(l[j]))
                => analysed'.location = l[k]
         /\ (analysed'.newMessage # NoMessage)
              <=> (analysed'.location # NoResult
                     \/ analysed'.callerProfile # NoResult)
         /\ (analysed'.newMessage # NoMessage) =>
              /\ analysed'.newMessage.role = "assistant"
              /\ analysed'.newMessage.isSystemNotification
              /\ analysed'.newMessage.buffer = "ArrayBuffer(0)"
              /\ analysed'.newMessage.id = "randomUUID"
    ]_vars

\* C30: an enrichment run one of whose calls fails (sentiment, summary,
\* decision step, place lookup or person lookup) writes nothing: no sentiment
\* is attached to any Message and no panel (last sentiment, summary,
\* location, person research) changes; the step leaves the response attempts
\* as they are, so the attempt for the same utterance can still commit.
\* Every panel write and every sentiment write is a step of a run whose
\* calls all resolved.
C30_FailedRunWritesNothing ==
  [][
     /\ \A r \in checks :
          ChecksFail(r) =>
            UNCHANGED <<messages, panels, attempts, respondCalls, isSpeaking,
                        audioSpeaker, onCall, uuid>>
     /\ (\/ panels' # panels
         \/ \E k \in DOMAIN messages \cap DOMAIN messages' :
              messages'[k].sentiment # messages[k].sentiment)
          => \E r \in checks, p \in PlaceLists, w \in WebResults :
               ChecksSettled(r, p, w)
    ]_vars

\* C30 witness: the run of the first utterance has ended without a write
\* and the reply to that utterance is in the timeline
C30_Witness ==
  /\ checks = {}
  /\ Len(messages) = 2
  /\ messages[1].role = "user"
  /\ messages[1].sentiment = NoSentiment
  /\ messages[2].role = "assistant"
  /\ lastSentiment = NoSentiment
  /\ summary = 0
  /\ locationSearch = "null"
  /\ humanResearch = "null"

\* the timeline holds an assistant Message after position k
Answered(k) ==
  \E j \in DOMAIN messages : j > k /\ messages[j].role = "assistant"

\* C31: a response attempt in which text generation, speech synthesis or
\* blob materialization fails appends no assistant Message, starts no
\* playback and leaves the timeline and the caller-speaking flag unchanged,
\* and the user Message it was started for is still answered later: a user
\* Message with an attempt in flight always gets an assistant Message after
\* it.
C31_FailedAttemptIsRetried ==
  /\ [][\A a \in attempts :
          RespondFail(a) => UNCHANGED <<messages, isSpeaking, audioSpeaker>>]_vars
  /\ \A k \in 1..(2 * MaxUtterances) :
       (/\ k \in DOMAIN messages
        /\ messages[k].role = "user"
        /\ \E a \in attempts : a.lastID = messages[k].id)
         ~> Answered(k)

\* C32: the caller-speaking flag set by onSpeechStart is always cleared
\* again: when the transcription call of a finalized utterance returns,
\* successfully or not, and no other utterance is in progress or being
\* transcribed, the flag is false.
C32_SpeakingFlagIsCleared ==
  [][
     \A n \in transcribing :
       (/\ TranscribeFail(n) \/ \E t \in Transcripts : TranscribeDone(n, t)
        /\ ~speechInProgress'
        /\ transcribing' = {})
         => ~isSpeaking'
    ]_vars

\* C33: each finalized utterance whose transcription succeeds yields exactly
\* one user Message, and user Messages appear in the timeline in the order
\* in which their utterances were finalized by the detector, for any order
\* in which the concurrent transcription calls complete.
C33_UserMessagesInUtteranceOrder ==
  \A i \in DOMAIN messages, j \in DOMAIN messages :
    (i < j /\ messages[i].role = "user" /\ messages[j].role = "user")
      => messages[i].buffer[2] < messages[j].buffer[2]

\* C34: after an explicit call end (handleEndCall) and until a new call is
\* started, no response attempt is started, no assistant Message is appended
\* and no playback is started, also by attempts and transcriptions in flight
\* when the call ended and when the call ends while the caller-speaking flag
\* is set.
C34_NothingAfterEndCall ==
  [][
     ~onCall' =>
       /\ respondCalls' = respondCalls
       /\ attempts' \subseteq attempts
       /\ \A k \in DOMAIN messages' \ DOMAIN messages :
            messages'[k].role # "assistant"
       /\ (audioSpeaker' # audioSpeaker) => audioSpeaker'.paused
    ]_vars

====
